---- MODULE Spec2Model ----
(***************************************************************************)
(* A model of csim.c, the set-associative cache simulator: initCache,      *)
(* updateLRU, accessData and replayTrace, with the trace drawn record by   *)
(* record from a bounded set of trace lines.                               *)
(*                                                                         *)
(* A trace line is modelled by the character replayTrace looks at          *)
(* (buf[1]) and the text sscanf is handed (buf + 3).  Lines are whole      *)
(* lines of at least three characters; the text is over the characters     *)
(* 0-9, a-f, "," and "z" (a character that is no digit).  The trace file   *)
(* is assumed to open.  The variable outcome holds what accessData prints  *)
(* in verbose mode, whether or not it is printed.                          *)
(*                                                                         *)
(* Spec and its variants start where main calls initCache.  SpecMain       *)
(* starts at main, with the texts given to -s, -E and -b read by atoi.     *)
(* SpecDecode has the address arithmetic of initCache and accessData at    *)
(* the widths of their types (64-bit addresses, 32-bit ints), which the    *)
(* small numbers of the other specifications never reach.                  *)
(***************************************************************************)
EXTENDS Integers, Sequences, FiniteSets, TLC

(* ------------------------------ bounds -------------------------------- *)
MaxS == 1
MaxB == 1
MaxE == 2
MaxAddr == 8
MaxCtr == 1
MaxCalls == 4

(* --------------------------- arithmetic ------------------------------- *)
\* x >> n on an unsigned value
ShiftRight(x, n) == x \div (2 ^ n)

\* 1 << n on an int (n stays below the int width in this model)
ShiftLeft(x, n) == x * (2 ^ n)

RECURSIVE BitAnd(_, _)
\* x & y on non-negative values
BitAnd(x, y) ==
    IF x = 0 \/ y = 0 THEN 0
    ELSE (IF x % 2 = 1 /\ y % 2 = 1 THEN 1 ELSE 0) + 2 * BitAnd(x \div 2, y \div 2)

(* ------------------------- trace line text ---------------------------- *)
HexDigits == <<"0", "1", "2", "3", "4", "5", "6", "7",
               "8", "9", "a", "b", "c", "d", "e", "f">>

IsHex(c) == \E i \in 1..16 : HexDigits[i] = c
HexVal(c) == (CHOOSE i \in 1..16 : HexDigits[i] = c) - 1
IsDec(c) == \E i \in 1..10 : HexDigits[i] = c

RECURSIVE HexText(_)
\* the hexadecimal text of n, as the trace generator writes an address
HexText(n) ==
    IF n < 16 THEN <<HexDigits[n + 1]>>
    ELSE HexText(n \div 16) \o <<HexDigits[(n % 16) + 1]>>

RECURSIVE DecText(_)
\* the decimal text of n, as the trace generator writes a length
DecText(n) ==
    IF n < 10 THEN <<HexDigits[n + 1]>>
    ELSE DecText(n \div 10) \o <<HexDigits[(n % 10) + 1]>>

RECURSIVE DigitRun(_, _, _)
\* the length of the longest run of digits (hex or decimal) text has from position i
DigitRun(text, i, hex) ==
    IF i > Len(text) THEN 0
    ELSE IF (hex /\ IsHex(text[i])) \/ (~hex /\ IsDec(text[i]))
         THEN 1 + DigitRun(text, i + 1, hex)
         ELSE 0

RECURSIVE DigitsValue(_, _, _, _)
\* the value of the n digits of text from position i in the given base
DigitsValue(text, i, n, base) ==
    IF n = 0 THEN 0
    ELSE DigitsValue(text, i, n - 1, base) * base + HexVal(text[i + n - 1])

\* sscanf(buf + 3, "%llx,%u", &addr, &len): the values of addr and len afterwards
\* and the number of conversions made.  A conversion that fails stops the scan and
\* leaves its variable, and those after it, as they were.  (The texts of this model
\* are short: no value reaches the 64 bits of addr or the 32 bits of len.)
Sscanf(text, addr0, len0) ==
    LET na == DigitRun(text, 1, TRUE)
        a  == DigitsValue(text, 1, na, 16)
        comma == na + 1 <= Len(text) /\ text[na + 1] = ","
        nl == IF comma THEN DigitRun(text, na + 2, FALSE) ELSE 0
        l  == DigitsValue(text, na + 2, nl, 10)
    IN  IF na = 0 THEN [addr |-> addr0, len |-> len0, n |-> 0]
        ELSE IF nl = 0 THEN [addr |-> a, len |-> len0, n |-> 1]
        ELSE [addr |-> a, len |-> l, n |-> 2]

Lens == {1}
WellFormedTexts == {HexText(a) \o <<",">> \o DecText(l) : a \in 0..MaxAddr, l \in Lens}
\* an address that does not parse; a length that does not parse
MalformedTexts == {<<"z", ",", "1">>, <<"4", ",", "z">>}
\* buf[1] of a line
OpChars == {"I", "L", "S", "M", "X"}
Records == [op : OpChars, text : WellFormedTexts \cup MalformedTexts]

(* ------------------------------ state --------------------------------- *)
VARIABLES
    s, b, E,            \* the globals set from the command line
    trace_file,         \* the global set from option -t (NULL: not set)
    S,                  \* the number of sets, set by initCache
    cache,              \* cache[i][j]: line j of set i
    hit_count, miss_count, eviction_count,
    addr, len,          \* replayTrace's locals
    pc,                 \* where main is
    nconv,              \* what sscanf converted of the line read last (-1: not called)
    outcome,            \* what accessData's verbose output says of the last access
    calls,              \* accessData calls made
    traced,             \* whether the run keeps the record below
    nLS, nM,            \* well-formed L and S lines read; well-formed M lines read
    seen,               \* the addresses accessData was called with
    ref, refOutcome,    \* the reference LRU lists, and their verdict on the last access
    exLines,            \* how many lines of ExampleTrace the lines read so far are
                        \* (-1: the lines read are no beginning of it)
    run2,               \* a second run, on a trace that differs from the one replayed
                        \* in block offsets and lengths only (run2.on: whether kept)
    word,               \* an address at its full width, as the set of its 1 bits
    tagBits, indexBits, \* what accessData computes of word, as sets of 1 bits
    nsetsBits           \* what initCache computes for S, as the set of its 1 bits

config == <<s, b, E, trace_file>>
decoded == <<word, tagBits, indexBits, nsetsBits>>
counters == <<hit_count, miss_count, eviction_count>>
history == <<nconv, outcome, calls, traced, nLS, nM, seen, ref, refOutcome, exLines>>
vars == <<s, b, E, trace_file, S, cache, hit_count, miss_count, eviction_count,
          addr, len, pc, nconv, outcome, calls, traced, nLS, nM, seen, ref, refOutcome,
          exLines, run2, word, tagBits, indexBits, nsetsBits>>

NoCache == [i \in {} |-> 0]
NULL == "NULL"
\* the name of a trace file that opens
TraceName == "trace"
Sets == DOMAIN cache
Lines == 0..(E - 1)

\* the configurations replayed: main goes on only with s, E and b not 0, and the
\* cache is well formed for s, b >= 0 and E >= 1
Configs == [s : 1..MaxS, b : 1..MaxB, E : 1..MaxE]

\* the second run before initCache
Run2Start(on) ==
    [on |-> on, cache |-> NoCache, hit_count |-> 0, miss_count |-> 0,
     eviction_count |-> 0, addr |-> 0, len |-> 0, outcome |-> "none"]

\* main about to call initCache.  The record of the lines read and of the addresses
\* accessed (nLS, nM, seen) multiplies the states and few properties read it: a run
\* keeps it only when it starts with traced.  So does the second run: it is kept
\* only when the run starts with twin.
Start(t, twin) ==
    /\ \E c \in Configs : s = c.s /\ b = c.b /\ E = c.E
    /\ trace_file = TraceName
    /\ exLines = 0
    /\ S = 0
    /\ cache = NoCache
    /\ hit_count = 0 /\ miss_count = 0 /\ eviction_count = 0
    /\ addr = 0 /\ len = 0
    /\ pc = "initCache"
    /\ nconv = -1
    /\ outcome = "none" /\ refOutcome = "none"
    /\ calls = 0 /\ nLS = 0 /\ nM = 0
    /\ seen = {}
    /\ ref = NoCache
    /\ traced = t
    /\ run2 = Run2Start(twin)
    /\ word = {} /\ tagBits = {} /\ indexBits = {} /\ nsetsBits = {}

Init == Start(FALSE, FALSE)
InitTraced == Start(TRUE, FALSE)
InitTwin == Start(FALSE, TRUE)

(* ---------------------------- initCache ------------------------------- *)
EmptyLine == [valid |-> 0, tag |-> 0, lru_counter |-> 0]

\* (int) pow(2, n): the conversion drops the fraction of 2^n for n < 0
PowToInt(n) == IF n < 0 THEN 0 ELSE 2 ^ n

\* S = pow(2, s), then S sets of E lines, every line cleared.  (With E < 0 no set
\* gets a line: malloc is asked for more than it has and the loop body never runs.)
InitCache ==
    /\ pc = "initCache"
    /\ S' = PowToInt(s)
    /\ cache' = [i \in 0..(PowToInt(s) - 1) |-> [j \in Lines |-> EmptyLine]]
    /\ ref' = [i \in 0..(PowToInt(s) - 1) |-> <<>>]
    /\ run2' = IF run2.on THEN [run2 EXCEPT !.cache = cache'] ELSE run2
    /\ pc' = "replay"
    /\ UNCHANGED <<config, decoded, counters, addr, len>>
    /\ UNCHANGED <<nconv, outcome, calls, traced, nLS, nM, seen, refOutcome, exLines>>

(* ---------------------------- updateLRU ------------------------------- *)
\* updateLRU without its last statement: the accessed line keeps its counter
UpdateLRUNoReset(set, lineIndex) ==
    [i \in DOMAIN set |->
        IF i # lineIndex /\ set[i].valid # 0 THEN [set[i] EXCEPT !.lru_counter = @ + 1]
        ELSE set[i]]

\* updateLRU without its test of the valid bit: every other line ages
UpdateLRUAllLines(set, lineIndex) ==
    [i \in DOMAIN set |->
        IF i = lineIndex THEN [set[i] EXCEPT !.lru_counter = 0]
        ELSE [set[i] EXCEPT !.lru_counter = @ + 1]]

\* the lines of a set after updateLRU(setIndex, lineIndex)
UpdateLRU(set, lineIndex) ==
    [i \in DOMAIN set |->
        IF i = lineIndex THEN [set[i] EXCEPT !.lru_counter = 0]
        ELSE IF set[i].valid # 0 THEN [set[i] EXCEPT !.lru_counter = @ + 1]
        ELSE set[i]]

(* ---------------------------- accessData ------------------------------ *)
\* the set index taken from the low bits of the address, block offset included
SetIndexNoShift(a) == BitAnd(a, ShiftLeft(1, s) - 1)

\* the whole address taken as the tag
TagWholeAddress(a) == a

Tag(a) == ShiftRight(a, s + b)
SetIndex(a) == BitAnd(ShiftRight(a, b), ShiftLeft(1, s) - 1)

\* the locals with empty_index starting at 0 instead of -1
ScanStartEmptyZero ==
    [hit |-> 0, hit_index |-> -1, empty_index |-> 0, lru_index |-> 0, max_lru |-> -1]

\* accessData's locals before its loop
ScanStart == [hit |-> 0, hit_index |-> -1, empty_index |-> -1, lru_index |-> 0, max_lru |-> -1]

\* the test with >= for >
OlderOrEqual(counter, max_lru) == counter >= max_lru

\* the test that makes line i the eviction candidate
Older(counter, max_lru) == counter > max_lru

RECURSIVE ScanNoValidTest(_, _, _, _)
\* the loop comparing the tag of every line, valid or not
ScanNoValidTest(set, tag, i, st) ==
    IF i >= E THEN st
    ELSE IF set[i].tag = tag
         THEN [st EXCEPT !.hit = 1, !.hit_index = i]
         ELSE IF set[i].valid # 0
              THEN IF Older(set[i].lru_counter, st.max_lru)
                   THEN ScanNoValidTest(set, tag, i + 1,
                             [st EXCEPT !.max_lru = set[i].lru_counter, !.lru_index = i])
                   ELSE ScanNoValidTest(set, tag, i + 1, st)
              ELSE IF st.empty_index = -1
                   THEN ScanNoValidTest(set, tag, i + 1, [st EXCEPT !.empty_index = i])
                   ELSE ScanNoValidTest(set, tag, i + 1, st)

RECURSIVE ScanLastEmpty(_, _, _, _)
\* the loop without its test empty_index == -1: the last invalid line is remembered
ScanLastEmpty(set, tag, i, st) ==
    IF i >= E THEN st
    ELSE IF set[i].valid # 0
         THEN IF set[i].tag = tag
              THEN [st EXCEPT !.hit = 1, !.hit_index = i]
              ELSE IF Older(set[i].lru_counter, st.max_lru)
                   THEN ScanLastEmpty(set, tag, i + 1,
                             [st EXCEPT !.max_lru = set[i].lru_counter, !.lru_index = i])
                   ELSE ScanLastEmpty(set, tag, i + 1, st)
         ELSE ScanLastEmpty(set, tag, i + 1, [st EXCEPT !.empty_index = i])

RECURSIVE Scan(_, _, _, _)
\* accessData's loop from line i on: it stops at a hit
Scan(set, tag, i, st) ==
    IF i >= E THEN st
    ELSE IF set[i].valid # 0
         THEN IF set[i].tag = tag
              THEN [st EXCEPT !.hit = 1, !.hit_index = i]
              ELSE IF Older(set[i].lru_counter, st.max_lru)
                   THEN Scan(set, tag, i + 1,
                             [st EXCEPT !.max_lru = set[i].lru_counter, !.lru_index = i])
                   ELSE Scan(set, tag, i + 1, st)
         ELSE IF st.empty_index = -1
              THEN Scan(set, tag, i + 1, [st EXCEPT !.empty_index = i])
              ELSE Scan(set, tag, i + 1, st)

\* a placement that leaves the valid bit as it was
PlaceNoValid(set, i, tag) ==
    UpdateLRU([set EXCEPT ![i] = [@ EXCEPT !.tag = tag]], i)

\* a placement without its updateLRU call
PlaceNoUpdate(set, i, tag) == [set EXCEPT ![i] = [@ EXCEPT !.valid = 1, !.tag = tag]]

\* the set after a miss was placed into the empty line at index i
Place(set, i, tag) ==
    UpdateLRU([set EXCEPT ![i] = [@ EXCEPT !.valid = 1, !.tag = tag]], i)

\* the set after a miss evicted the line at index i
Evict(set, i, tag) ==
    UpdateLRU([set EXCEPT ![i] = [@ EXCEPT !.tag = tag]], i)

\* the loop comparing the lines' tags with the address instead of its tag
LookupByAddr(set, a) == Scan(set, a, 0, ScanStart)

\* accessData's loop on the set the address selects
Lookup(set, a) == Scan(set, Tag(a), 0, ScanStart)

\* a hit that is counted as a miss too (miss_count++ ahead of the test of hit)
OnHitAlsoMiss(c, setIndex, i) ==
    [cache |-> [c EXCEPT ![setIndex] = UpdateLRU(@, i)],
     hit |-> 1, miss |-> 1, evict |-> 0, out |-> "hit"]

\* what accessData does at a hit on line i: the cache afterwards, what is added to
\* the three counters, and the verbose output
OnHit(c, setIndex, i) ==
    [cache |-> [c EXCEPT ![setIndex] = UpdateLRU(@, i)],
     hit |-> 1, miss |-> 0, evict |-> 0, out |-> "hit"]

\* a placement that is counted as an eviction too (eviction_count++ outside its else)
OnEmptyEvicts(c, setIndex, i, tag) ==
    [cache |-> [c EXCEPT ![setIndex] = Place(@, i, tag)],
     hit |-> 0, miss |-> 1, evict |-> 1, out |-> "miss"]

\* what it does at a miss with line i empty
OnEmpty(c, setIndex, i, tag) ==
    [cache |-> [c EXCEPT ![setIndex] = Place(@, i, tag)],
     hit |-> 0, miss |-> 1, evict |-> 0, out |-> "miss"]

\* an eviction whose miss is not counted (miss_count++ moved into the other branch)
OnFullNoMiss(c, setIndex, i, tag) ==
    [cache |-> [c EXCEPT ![setIndex] = Evict(@, i, tag)],
     hit |-> 0, miss |-> 0, evict |-> 1, out |-> "miss eviction"]

\* an eviction that overwrites line i of set 0, whatever set the address selects
OnFullSetZero(c, setIndex, i, tag) ==
    [cache |-> [c EXCEPT ![0] = Evict(@, i, tag)],
     hit |-> 0, miss |-> 1, evict |-> 1, out |-> "miss eviction"]

\* what it does at a miss with no line empty and line i the eviction candidate
OnFull(c, setIndex, i, tag) ==
    [cache |-> [c EXCEPT ![setIndex] = Evict(@, i, tag)],
     hit |-> 0, miss |-> 1, evict |-> 1, out |-> "miss eviction"]

\* accessData(a) on cache c
AccessData(c, a) ==
    LET setIndex == SetIndex(a)
        st == Lookup(c[setIndex], a)
    IN  IF st.hit = 1 THEN OnHit(c, setIndex, st.hit_index)
        ELSE IF st.empty_index # -1 THEN OnEmpty(c, setIndex, st.empty_index, Tag(a))
        ELSE OnFull(c, setIndex, st.lru_index, Tag(a))

(* ----------------------- the reference LRU model ---------------------- *)
Range(q) == {q[i] : i \in DOMAIN q}
Without(q, x) == SelectSeq(q, LAMBDA y : y # x)

\* one access to a set kept as the list of its tags, the last touched first
RefAccess(q, tag) ==
    IF tag \in Range(q) THEN [list |-> <<tag>> \o Without(q, tag), out |-> "hit"]
    ELSE IF Len(q) < E THEN [list |-> <<tag>> \o q, out |-> "miss"]
    ELSE [list |-> <<tag>> \o SubSeq(q, 1, Len(q) - 1), out |-> "miss eviction"]

(* ---------------------------- replayTrace ----------------------------- *)
\* the trace of the end-to-end examples: L 0,1 / L 2,1 / L 4,1
ExampleTrace ==
    << [op |-> "L", text |-> <<"0", ",", "1">>],
       [op |-> "L", text |-> <<"2", ",", "1">>],
       [op |-> "L", text |-> <<"4", ",", "1">>] >>

\* exLines after line rec was read
ExampleLines(rec) ==
    IF exLines >= 0 /\ exLines < Len(ExampleTrace) /\ ExampleTrace[exLines + 1] = rec
    THEN exLines + 1 ELSE -1

\* one accessData(a) call, with what is recorded of it
Call(a) ==
    LET r == AccessData(cache, a)
        q == RefAccess(ref[SetIndex(a)], Tag(a))
    IN  /\ cache' = r.cache
        /\ hit_count' = hit_count + r.hit
        /\ miss_count' = miss_count + r.miss
        /\ eviction_count' = eviction_count + r.evict
        /\ outcome' = r.out
        /\ calls' = calls + 1
        /\ seen' = IF traced THEN seen \cup {a} ELSE seen
        /\ ref' = [ref EXCEPT ![SetIndex(a)] = q.list]
        /\ refOutcome' = q.out

\* the lines of the second trace: those of the first, and other lengths
Lens2 == {1, 4}
Texts2 ==
    {HexText(a) \o <<",">> \o DecText(l) : a \in 0..MaxAddr, l \in Lens2}
        \cup MalformedTexts

\* two texts that differ at most in the b low bits of the address and in the length
SameBlock(text1, text2) ==
    LET p1 == Sscanf(text1, 0, 0)
        p2 == Sscanf(text2, 0, 0)
    IN  \/ p1.n = 0 /\ p2.n = 0
        \/ p1.n >= 1 /\ p2.n >= 1 /\ ShiftRight(p1.addr, b) = ShiftRight(p2.addr, b)

\* the lines the second trace may hold where the first holds rec
Variants(rec) == {r2 \in [op : {rec.op}, text : Texts2] : SameBlock(rec.text, r2.text)}

\* the second run after sscanf left a2 and l2 in its addr and len and accessData(a2)
Call2(r, a2, l2) ==
    LET q == AccessData(r.cache, a2)
    IN  [r EXCEPT !.cache = q.cache,
                  !.hit_count = @ + q.hit,
                  !.miss_count = @ + q.miss,
                  !.eviction_count = @ + q.evict,
                  !.addr = a2, !.len = l2, !.outcome = q.out]

\* a line with S, L or M at buf[1]: sscanf, then accessData (the first of two for M)
ReplayAccess(rec) ==
    /\ pc = "replay"
    /\ rec.op \in {"S", "L", "M"}
    /\ calls + (IF rec.op = "M" THEN 2 ELSE 1) <= MaxCalls
    /\ LET sc == Sscanf(rec.text, addr, len)
       IN  /\ addr' = sc.addr
           /\ len' = sc.len
           /\ nconv' = sc.n
           /\ Call(sc.addr)
           /\ nLS' = IF traced /\ rec.op # "M" /\ sc.n = 2 THEN nLS + 1 ELSE nLS
           /\ nM' = IF traced /\ rec.op = "M" /\ sc.n = 2 THEN nM + 1 ELSE nM
    /\ exLines' = ExampleLines(rec)
    /\ IF run2.on
       THEN \E r2 \in Variants(rec) :
               LET sc2 == Sscanf(r2.text, run2.addr, run2.len)
               IN  run2' = Call2(run2, sc2.addr, sc2.len)
       ELSE run2' = run2
    /\ pc' = IF rec.op = "M" THEN "modify2" ELSE "replay"
    /\ UNCHANGED <<config, decoded, S, traced>>

\* the second accessData(addr) of an M line
ModifySecond ==
    /\ pc = "modify2"
    /\ Call(addr)
    /\ run2' = IF run2.on THEN Call2(run2, run2.addr, run2.len) ELSE run2
    /\ pc' = "replay"
    /\ UNCHANGED <<config, decoded, S, addr, len, nconv, traced, nLS, nM, exLines>>

\* a line with anything else at buf[1]: nothing is done with it
ReplayIgnore(rec) ==
    /\ pc = "replay"
    /\ rec.op \notin {"S", "L", "M"}
    /\ nconv' = -1
    /\ exLines' = ExampleLines(rec)
    /\ UNCHANGED <<config, decoded, S, cache, counters, addr, len, pc>>
    /\ UNCHANGED <<outcome, calls, traced, nLS, nM, seen, ref, refOutcome, run2>>

\* fgets returns NULL: replayTrace closes the file and returns
EndOfTrace ==
    /\ pc = "replay"
    /\ pc' = "freeCache"
    /\ UNCHANGED <<config, decoded, S, cache, counters, addr, len, history, run2>>

\* freeCache, then printSummary(hit_count, miss_count, eviction_count)
FreeCache ==
    /\ pc = "freeCache"
    /\ cache' = NoCache
    /\ run2' = IF run2.on THEN [run2 EXCEPT !.cache = NoCache] ELSE run2
    /\ pc' = "done"
    /\ UNCHANGED <<config, decoded, S, counters, addr, len, history>>

Next ==
    \/ InitCache
    \/ \E rec \in Records : ReplayAccess(rec)
    \/ ModifySecond
    \/ \E rec \in Records : ReplayIgnore(rec)
    \/ EndOfTrace
    \/ FreeCache

Spec == Init /\ [][Next]_vars

\* the same runs, keeping the record of the lines read and the addresses accessed
SpecTraced == InitTraced /\ [][Next]_vars

\* the same runs, each with a second run beside it
SpecTwin == InitTwin /\ [][Next]_vars

(* ------------------------------- main --------------------------------- *)
MaxArg == 2

\* what -s, -E or -b is given with: a number, a negative number, no number
OptTexts == {DecText(n) : n \in 0..MaxArg} \cup {<<"-">> \o DecText(1)} \cup {<<"z">>}

\* atoi(optarg): an optional sign and the digits after it, 0 where there are none
Atoi(text) ==
    LET neg == Len(text) >= 1 /\ text[1] = "-"
        from == IF neg THEN 2 ELSE 1
        v == DigitsValue(text, from, DigitRun(text, from, FALSE), 10)
    IN  IF neg THEN 0 - v ELSE v

\* a global after the getopt loop: <<>> stands for an option that is not given
Option(text, global) == IF text = <<>> THEN global ELSE Atoi(text)

\* the program starts: the globals hold their initializers
InitMain ==
    /\ s = 0 /\ b = 0 /\ E = 0
    /\ trace_file = NULL
    /\ exLines = 0
    /\ S = 0
    /\ cache = NoCache
    /\ hit_count = 0 /\ miss_count = 0 /\ eviction_count = 0
    /\ addr = 0 /\ len = 0
    /\ pc = "main"
    /\ nconv = -1
    /\ outcome = "none" /\ refOutcome = "none"
    /\ calls = 0 /\ nLS = 0 /\ nM = 0
    /\ seen = {}
    /\ ref = NoCache
    /\ traced = FALSE
    /\ run2 = Run2Start(FALSE)
    /\ word = {} /\ tagBits = {} /\ indexBits = {} /\ nsetsBits = {}

\* main's test of the globals after the getopt loop
MissingArgument(s1, E1, b1, tf) == s1 = 0 \/ E1 = 0 \/ b1 = 0 \/ tf = NULL

\* main up to initCache: the getopt loop, then the test that ends the program with
\* the usage text and exit(1), before initCache, replayTrace and printSummary
Main ==
    /\ pc = "main"
    /\ \E ts, tE, tb \in OptTexts \cup {<<>>} : \E tf \in {NULL, TraceName} :
          /\ s' = Option(ts, s)
          /\ E' = Option(tE, E)
          /\ b' = Option(tb, b)
          /\ trace_file' = tf
          /\ pc' = IF MissingArgument(Option(ts, s), Option(tE, E), Option(tb, b), tf)
                   THEN "exit" ELSE "initCache"
    /\ UNCHANGED <<S, cache, counters, addr, len, history, run2, decoded>>

\* the globals accessData's shifts and its indexing of cache are defined for
Defined == s >= 0 /\ b >= 0 /\ E >= 1

\* a line with S, L or M at buf[1] when accessData is undefined for the globals (a
\* shift by a negative count, a set without lines): sscanf does what it does, then the
\* process is killed or goes on, with counters of any value
UndefinedAccess(rec) ==
    /\ pc = "replay"
    /\ ~Defined
    /\ rec.op \in {"S", "L", "M"}
    /\ calls < MaxCalls
    /\ LET sc == Sscanf(rec.text, addr, len)
       IN  addr' = sc.addr /\ len' = sc.len /\ nconv' = sc.n
    /\ calls' = calls + 1
    /\ exLines' = ExampleLines(rec)
    /\ \/ pc' = "killed" /\ UNCHANGED counters
       \/ /\ pc' = "replay"
          /\ hit_count' \in 0..1 /\ miss_count' \in 0..1 /\ eviction_count' \in 0..1
    /\ UNCHANGED <<config, decoded, S, cache, outcome, traced, nLS, nM, seen, ref, refOutcome>>
    /\ UNCHANGED run2

NextMain ==
    \/ Main
    \/ InitCache
    \/ Defined /\ \E rec \in Records : ReplayAccess(rec)
    \/ \E rec \in Records : UndefinedAccess(rec)
    \/ ModifySecond
    \/ \E rec \in Records : ReplayIgnore(rec)
    \/ EndOfTrace
    \/ FreeCache

\* the program from its start, whatever its command line
SpecMain == InitMain /\ [][NextMain]_vars

(* ----------- the address arithmetic at the widths of the types -------- *)
\* An unsigned long long is modelled by the set of the positions of its 1 bits, an
\* int by the set of the 1 bits of its two's complement pattern.
ADDRESS_LENGTH == 64
IntBits == 32

\* w >> n on an unsigned long long, 0 <= n < ADDRESS_LENGTH
ShiftRightBits(w, n) == {i - n : i \in {k \in w : k >= n}}

\* (1 << n) - 1 where 1 << n is an int
MaskBits(n) == 0..(n - 1)

\* an int converted to unsigned long long, as & does with its int operand
SignExtend(m) == IF (IntBits - 1) \in m THEN m \cup (IntBits..(ADDRESS_LENGTH - 1)) ELSE m

\* an unsigned long long converted to int, as the initialization of setIndex does
ToInt(w) == w \cap (0..(IntBits - 1))

\* ints an undefined operation may leave: 0, 1, INT_MAX, INT_MIN, -1
AnyInt == {{}, {0}, 0..(IntBits - 2), {IntBits - 1}, 0..(IntBits - 1)}

\* (1 << n) - 1: 1 << n is undefined when 2^n is no int
MaskOutcomes(n) == IF n <= IntBits - 2 THEN {MaskBits(n)} ELSE AnyInt

\* S = pow(2, n): the conversion to int is undefined when 2^n is no int
SetsOutcomes(n) == IF n <= IntBits - 2 THEN {{n}} ELSE AnyInt

\* addr >> n: undefined when n is the width of addr
TagOutcomes(w, n) == IF n < ADDRESS_LENGTH THEN {ShiftRightBits(w, n)} ELSE {w, {}}

\* the s and b tried (main goes on with any but 0), the 1 bits an address is made of
ShiftCounts == {1, 2, 30, 31, 32, 33, 34}
Probes == {0, 1, 30, 31, 32, 63}

\* main about to call initCache, and the address of the first trace line
InitDecode ==
    /\ s \in ShiftCounts /\ b \in ShiftCounts /\ s + b <= ADDRESS_LENGTH
    /\ E = 1
    /\ trace_file = TraceName
    /\ word \in SUBSET Probes
    /\ tagBits = {} /\ indexBits = {} /\ nsetsBits = {}
    /\ exLines = 0
    /\ S = 0
    /\ cache = NoCache
    /\ hit_count = 0 /\ miss_count = 0 /\ eviction_count = 0
    /\ addr = 0 /\ len = 0
    /\ pc = "initCache"
    /\ nconv = -1
    /\ outcome = "none" /\ refOutcome = "none"
    /\ calls = 0 /\ nLS = 0 /\ nM = 0
    /\ seen = {}
    /\ ref = NoCache
    /\ traced = FALSE
    /\ run2 = Run2Start(FALSE)

\* initCache's first statement, S = pow(2, s)
InitCacheSets ==
    /\ pc = "initCache"
    /\ nsetsBits' \in SetsOutcomes(s)
    /\ pc' = "accessData"
    /\ UNCHANGED <<config, S, cache, counters, addr, len, history, run2>>
    /\ UNCHANGED <<word, tagBits, indexBits>>

\* accessData's first two statements, on the address word
DecodeAddress ==
    /\ pc = "accessData"
    /\ tagBits' \in TagOutcomes(word, s + b)
    /\ \E m \in MaskOutcomes(s) :
          indexBits' = ToInt(ShiftRightBits(word, b) \cap SignExtend(m))
    /\ pc' = "decoded"
    /\ UNCHANGED <<config, S, cache, counters, addr, len, history, run2>>
    /\ UNCHANGED <<word, nsetsBits>>

NextDecode == InitCacheSets \/ DecodeAddress

SpecDecode == InitDecode /\ [][NextDecode]_vars

(* ------------- accessData on any contents of one set ------------------ *)
\* what a line may hold: nothing, or a tag of the address range with a counter
LineStates(c) ==
    {EmptyLine} \cup
    [valid : {1}, tag : 0..ShiftRight(MaxAddr, c.s + c.b), lru_counter : 0..MaxCtr]

\* replayTrace about to read its first line, with one set of the cache holding
\* any lines and the others as initCache left them
InitAny ==
    /\ \E c \in Configs :
          /\ s = c.s /\ b = c.b /\ E = c.E
          /\ S = 2 ^ c.s
          /\ \E i0 \in 0..(2 ^ c.s - 1) : \E set \in [0..(c.E - 1) -> LineStates(c)] :
                cache = [i \in 0..(2 ^ c.s - 1) |->
                            IF i = i0 THEN set ELSE [j \in 0..(c.E - 1) |-> EmptyLine]]
          /\ ref = [i \in 0..(2 ^ c.s - 1) |-> <<>>]
    /\ hit_count = 0 /\ miss_count = 0 /\ eviction_count = 0
    /\ addr = 0 /\ len = 0
    /\ pc = "replay"
    /\ nconv = -1
    /\ outcome = "none" /\ refOutcome = "none"
    /\ calls = 0 /\ nLS = 0 /\ nM = 0
    /\ seen = {}
    /\ traced = FALSE
    /\ trace_file = TraceName
    /\ exLines = 0
    /\ run2 = Run2Start(FALSE)
    /\ word = {} /\ tagBits = {} /\ indexBits = {} /\ nsetsBits = {}

\* one line of the trace is replayed
NextAny ==
    \/ calls = 0 /\ \E rec \in Records : ReplayAccess(rec)
    \/ ModifySecond

SpecAny == InitAny /\ [][NextAny]_vars

(* ============================== claims ================================ *)
\* the step made an accessData call; the address it was called with is addr'
IsCall == calls' = calls + 1

ValidLines(set) == {j \in DOMAIN set : set[j].valid # 0}
ResidentTags(set) == {set[j].tag : j \in ValidLines(set)}
Full(set) == \A j \in DOMAIN set : set[j].valid # 0

\* the address without its block offset bits
Block(a) == ShiftRight(a, b)

\* the valid lines of set i are the reference list ref[i]: the same tags, and the
\* k-th most recently touched tag sits in the line with the k-th smallest counter
RefAgrees ==
    \A i \in Sets :
        /\ ResidentTags(cache[i]) = Range(ref[i])
        /\ Len(ref[i]) = Cardinality(ValidLines(cache[i]))
        /\ \A k \in 1..Len(ref[i]) :
              \E j \in ValidLines(cache[i]) :
                  /\ cache[i][j].tag = ref[i][k]
                  /\ Cardinality({m \in ValidLines(cache[i]) :
                        cache[i][m].lru_counter < cache[i][j].lru_counter}) = k - 1

\* a miss in a set whose lines are all valid overwrites the tag the reference list
\* holds last, the least recently touched one
EvictsLeastRecent ==
    LET i == SetIndex(addr')
    IN  (IsCall /\ hit_count' = hit_count /\ Full(cache[i]))
            => /\ ResidentTags(cache[i]) \ ResidentTags(cache'[i]) = {ref[i][Len(ref[i])]}
               /\ ResidentTags(cache'[i]) \ ResidentTags(cache[i]) = {Tag(addr')}

\* C1: replacement is true LRU.  After every access the cache and the reference LRU
\* lists agree on the classification of the access (hit, miss, miss with eviction) and
\* on the tags resident in every set, in recency order; and a miss in a full set
\* overwrites the least recently touched tag of that set.
C1_TrueLRU ==
    /\ [](outcome = refOutcome /\ RefAgrees)
    /\ [][EvictsLeastRecent]_vars

\* C1 witness: in a 2-line set the first eviction took line 1, not line 0: line 0 had
\* been touched again (a hit) after line 1 was placed.
C1_Witness ==
    /\ E = 2 /\ pc = "replay"
    /\ outcome = "miss eviction" /\ eviction_count = 1 /\ hit_count >= 1
    /\ cache[SetIndex(addr)][1].tag = Tag(addr)
    /\ cache[SetIndex(addr)][1].lru_counter = 0

(* ------------------------------- C2 ----------------------------------- *)
\* the step is a hit and nothing else: hit_count + 1, the other two counters kept
HitOnly ==
    /\ outcome' = "hit"
    /\ hit_count' = hit_count + 1
    /\ miss_count' = miss_count
    /\ eviction_count' = eviction_count

\* an accessData call with the address of the call before it
Reaccess == IsCall /\ calls >= 1 /\ addr' = addr

\* C2: an accessData(addr) call that directly follows an accessData call with the
\* same address is a hit.  So the second access of an M line is a hit, and the first
\* adds to hit_count or to miss_count, and at most one eviction: an M line yields
\* {hit, hit} or {miss, hit}, never two misses, never more than one eviction.
C2_ReaccessHits ==
    [][ /\ Reaccess => HitOnly
        /\ pc = "modify2" => Reaccess /\ HitOnly
        /\ pc' = "modify2" =>
              /\ hit_count' + miss_count' = hit_count + miss_count + 1
              /\ miss_count' \in {miss_count, miss_count + 1}
              /\ eviction_count' \in {eviction_count, eviction_count + 1} ]_vars

\* C2 witness: an L or S line and then an M line were replayed and nothing else was
\* accessed; the M line's first access missed and evicted, its second hit.
C2_Witness ==
    /\ pc = "replay" /\ calls = 3 /\ nLS = 1 /\ nM = 1
    /\ outcome = "hit" /\ hit_count = 1 /\ miss_count = 2 /\ eviction_count = 1

(* ------------------------------- C3 ----------------------------------- *)
\* replayTrace read a line: sscanf ran on it (nconv' >= 0) or it was passed over
ReadLine == pc = "replay" /\ pc' \in {"replay", "modify2"}

\* C3 (the claim as stated): a line whose buf[1] is none of L, S, M (nconv' = -1), or an
\* L, S or M line of which sscanf did not convert both the address and the length
\* (nconv' < 2), is skipped: the cache and the three counters stay as they were and
\* replayTrace is at its next line.
C3_MalformedSkipped ==
    [][ (ReadLine /\ nconv' # 2) =>
            /\ UNCHANGED <<cache, hit_count, miss_count, eviction_count>>
            /\ pc' = "replay" ]_vars

(* ------------------------------- C4 ----------------------------------- *)
\* C4 (the claim as stated): when replayTrace has returned, hit_count + miss_count is
\* the number of well-formed L and S lines plus twice the number of well-formed M
\* lines; every other line contributed no access.
C4_AccountingIdentity ==
    pc \in {"freeCache", "done"} => hit_count + miss_count = nLS + 2 * nM

(* ------------------------------- C5 ----------------------------------- *)
\* the first access of an M line misses; it evicts exactly when the set was full
FirstMissesAndEvictsIfFull ==
    /\ hit_count' = hit_count
    /\ miss_count' = miss_count + 1
    /\ eviction_count' =
          eviction_count + (IF Full(cache[SetIndex(addr')]) THEN 1 ELSE 0)

\* C5 (the claim as stated): an M line on an address accessData was never called
\* with before yields one miss and one hit, and one eviction exactly when the
\* target set had no invalid line before the first of the two accesses.
C5_FreshAddressModify ==
    [][ /\ (pc' = "modify2" /\ nconv' = 2 /\ addr' \notin seen) => FirstMissesAndEvictsIfFull
        /\ pc = "modify2" => HitOnly ]_vars

\* C5 (amended): an M line on an address no block of which (the address without its
\* b block offset bits) was accessed before yields one miss and one hit, and one
\* eviction exactly when the target set had no invalid line before the first access.
C5_FreshBlockModify ==
    [][ /\ (pc' = "modify2" /\ Block(addr') \notin {Block(a) : a \in seen})
              => FirstMissesAndEvictsIfFull
        /\ pc = "modify2" => HitOnly ]_vars

\* C5 witness: the first access of an M line evicted, and it is the first eviction
\* and no access has hit yet, so every access so far was to a block not seen before.
C5_Witness ==
    /\ pc = "modify2" /\ outcome = "miss eviction"
    /\ eviction_count = 1 /\ hit_count = 0 /\ nconv = 2

(* ------------------------------- C6 ----------------------------------- *)
\* C6: the three counters are never negative and never decrease, and
\* evictions <= misses <= hits + misses = the number of accessData calls so far.
C6_Counters ==
    /\ [](/\ hit_count >= 0 /\ miss_count >= 0 /\ eviction_count >= 0
          /\ eviction_count <= miss_count
          /\ miss_count <= hit_count + miss_count
          /\ hit_count + miss_count = calls)
    /\ [][/\ hit_count' >= hit_count
          /\ miss_count' >= miss_count
          /\ eviction_count' >= eviction_count]_vars

\* C6 witness: hits, placements and evictions have all happened.
C6_Witness ==
    hit_count >= 1 /\ eviction_count >= 1 /\ miss_count > eviction_count

(* ------------------------------- C7 ----------------------------------- *)
\* C7: no two valid lines of one set hold the same tag.
C7_DistinctTags ==
    \A i \in Sets : \A j, k \in ValidLines(cache[i]) :
        j # k => cache[i][j].tag # cache[i][k].tag

\* C7 witness: a set with two valid lines whose tag was accessed again (a hit) and
\* into which a third tag was brought.
C7_Witness ==
    \E i \in Sets :
        /\ Cardinality(ValidLines(cache[i])) = 2
        /\ hit_count >= 1 /\ eviction_count >= 1 /\ SetIndex(addr) = i

(* ------------------------------- C8 ----------------------------------- *)
\* the three outcomes of an accessData call on set i
IsHit == hit_count' = hit_count + 1 /\ miss_count' = miss_count
                /\ eviction_count' = eviction_count
IsPlacement(i) ==
    /\ hit_count' = hit_count /\ miss_count' = miss_count + 1
    /\ eviction_count' = eviction_count
    /\ \E j \in Lines : /\ cache[i][j].valid = 0
                        /\ ValidLines(cache'[i]) = ValidLines(cache[i]) \cup {j}
IsEviction(i) ==
    /\ hit_count' = hit_count /\ miss_count' = miss_count + 1
    /\ eviction_count' = eviction_count + 1
    /\ ValidLines(cache'[i]) = ValidLines(cache[i])

\* C8: an accessData call ends as a hit (hit_count + 1 only), as a miss placed into
\* an invalid line (miss_count + 1 only) or as a miss with eviction (miss_count + 1
\* and eviction_count + 1), and as exactly one of them; it evicts exactly when it
\* misses and every line of the target set was valid before it.
C8_ThreeOutcomes ==
    [][ IsCall =>
          LET i == SetIndex(addr')
              hit == Tag(addr') \in ResidentTags(cache[i])
          IN  /\ IsHit \/ IsPlacement(i) \/ IsEviction(i)
              /\ ~(IsHit /\ IsPlacement(i))
              /\ ~(IsHit /\ IsEviction(i))
              /\ ~(IsPlacement(i) /\ IsEviction(i))
              /\ IsHit <=> hit
              /\ IsEviction(i) <=> (~hit /\ Full(cache[i]))
              /\ IsPlacement(i) <=> (~hit /\ ~Full(cache[i])) ]_vars

\* C8 witness: a run in which an access hit, one was placed and the last one evicted.
C8_Witness ==
    /\ outcome = "miss eviction" /\ hit_count >= 1
    /\ miss_count >= eviction_count + 2

(* ------------------------------- C9 ----------------------------------- *)
MaxOf(ns) == CHOOSE m \in ns : \A n \in ns : n <= m
MinOf(ns) == CHOOSE m \in ns : \A n \in ns : m <= n

\* the lowest-indexed of the lines of a set that hold its greatest counter
FirstOldest(set) ==
    LET top == MaxOf({set[j].lru_counter : j \in DOMAIN set})
    IN  MinOf({j \in DOMAIN set : set[j].lru_counter = top})

\* C9: whatever a set whose lines are all valid holds, a miss in it evicts the line
\* with the greatest recency counter and, where several lines hold that greatest
\* counter, the lowest-indexed of them: that line gets the new tag, every other line
\* keeps its tag.
C9_TieBreak ==
    [][ LET i == SetIndex(addr')
        IN  (IsCall /\ Full(cache[i]) /\ Tag(addr') \notin ResidentTags(cache[i]))
                => LET v == FirstOldest(cache[i])
                   IN  /\ cache'[i][v].tag = Tag(addr')
                       /\ cache'[i][v].lru_counter = 0
                       /\ \A j \in Lines \ {v} : cache'[i][j].tag = cache[i][j].tag ]_vars

\* C9 witness: the first access evicted line 0 of a 2-line set and line 1's counter
\* is now MaxCtr + 1: before the access line 1 held MaxCtr, the greatest counter a
\* line starts with, and line 0, the victim, held no less: both held MaxCtr.
C9_Witness ==
    /\ E = 2 /\ calls = 1 /\ outcome = "miss eviction"
    /\ cache[SetIndex(addr)][0].tag = Tag(addr)
    /\ cache[SetIndex(addr)][0].lru_counter = 0
    /\ cache[SetIndex(addr)][1].lru_counter = MaxCtr + 1

(* ------------------------------- C10 ---------------------------------- *)
\* C10: with E = 1, an access to a set whose line is valid and holds another tag
\* evicts: miss_count and eviction_count go up by one, hit_count stays, the access is
\* not a placement into an empty line, and the line then holds the new tag.
C10_DirectMapped ==
    [][ LET i == SetIndex(addr')
        IN  (IsCall /\ E = 1 /\ cache[i][0].valid # 0 /\ cache[i][0].tag # Tag(addr'))
                => /\ outcome' = "miss eviction"
                   /\ miss_count' = miss_count + 1
                   /\ eviction_count' = eviction_count + 1
                   /\ hit_count' = hit_count
                   /\ cache'[i][0].valid # 0
                   /\ cache'[i][0].tag = Tag(addr') ]_vars

\* C10 witness: a one-line set was filled, then accessed with another tag.
C10_Witness ==
    /\ E = 1 /\ calls = 2 /\ miss_count = 2 /\ eviction_count = 1
    /\ outcome = "miss eviction"
    /\ cache[SetIndex(addr)][0].tag = Tag(addr)

(* ------------------------------- C11 ---------------------------------- *)
\* C11 (the claim as stated): the program started with s = 1, b = 0, E = 1 or 2 and a
\* trace file goes on to replay it and to report statistics; when the file holds the
\* lines L 0,1 / L 2,1 / L 4,1 it ends with hits = 0, misses = 3 and evictions = 2
\* for E = 1, evictions = 1 for E = 2.
C11_EndToEnd ==
    (pc # "main" /\ s = 1 /\ b = 0 /\ E \in {1, 2} /\ trace_file # NULL)
        => /\ pc # "exit"
           /\ (pc \in {"freeCache", "done"} /\ exLines = Len(ExampleTrace))
                 => /\ hit_count = 0
                    /\ miss_count = 3
                    /\ eviction_count = (IF E = 1 THEN 2 ELSE 1)

(* ------------------------------- C12 ---------------------------------- *)
\* C12 (the claim as stated): main ends the program before initCache exactly for the
\* configurations with s < 0, b < 0, E <= 0 or no trace file; with s = 0 the program
\* goes on, and initCache makes one set.
C12_Validation ==
    pc # "main" =>
        /\ pc = "exit" <=> (s < 0 \/ b < 0 \/ E <= 0 \/ trace_file = NULL)
        /\ (s = 0 /\ pc \in {"replay", "modify2", "freeCache"}) => S = 1

(* ------------------------------- C13 ---------------------------------- *)
\* line j of set i is the line the step's accessData call touched
Touched(i, j) ==
    /\ IsCall /\ i = SetIndex(addr')
    /\ cache'[i][j].valid # 0 /\ cache'[i][j].tag = Tag(addr')

\* C13: an accessData call (hit, placement or eviction) leaves the line it touched
\* with recency counter 0, adds exactly 1 to the counter of every other line of that
\* set that is valid and leaves the counter of its invalid lines as it was; and no
\* step lowers the counter of a valid line unless it touches that line.
C13_Recency ==
    [][ /\ IsCall =>
              LET i == SetIndex(addr')
              IN  \E j \in Lines :
                     /\ Touched(i, j)
                     /\ cache'[i][j].lru_counter = 0
                     /\ \A k \in Lines \ {j} :
                            cache'[i][k].lru_counter =
                               cache[i][k].lru_counter
                                  + (IF cache[i][k].valid # 0 THEN 1 ELSE 0)
        /\ \A i \in Sets \cap DOMAIN cache' : \A j \in Lines :
              (cache[i][j].valid # 0 /\ ~Touched(i, j))
                  => cache'[i][j].lru_counter >= cache[i][j].lru_counter ]_vars

\* C13 witness: in a 2-line set a line was hit while the other line, valid and not
\* touched since two accesses, has reached counter 2; the hit line is at 0.
C13_Witness ==
    /\ E = 2 /\ pc = "replay" /\ outcome = "hit"
    /\ \E j \in Lines :
          /\ cache[SetIndex(addr)][j].tag = Tag(addr)
          /\ cache[SetIndex(addr)][j].lru_counter = 0
          /\ cache[SetIndex(addr)][1 - j].valid # 0
          /\ cache[SetIndex(addr)][1 - j].lru_counter = 2

(* ------------------------------- C14 ---------------------------------- *)
\* C14 (the claim as stated): for every 64-bit address and every s, b >= 0 with
\* s + b within the 64 bits, accessData computes tag = addr >> (s + b) and
\* setIndex = (addr >> b) mod 2^s, initCache computes S = 2^s, and
\* 0 <= setIndex < S.
C14_Decomposition ==
    pc = "decoded" =>
        /\ tagBits = ShiftRightBits(word, s + b)
        /\ indexBits = {i \in ShiftRightBits(word, b) : i < s}
        /\ nsetsBits = {s}
        /\ (IntBits - 1) \notin indexBits
        /\ \A i \in indexBits : i < s

(* ------------------------------- C15 ---------------------------------- *)
\* C15: initCache leaves 2^s sets of E lines, every line invalid with tag 0 and
\* recency counter 0; up to freeCache a valid line stays valid, so the number of
\* valid lines of a set never decreases; and an accessData call with tag 0 on a set
\* none of whose valid lines holds tag 0 is a miss.
C15_Lifecycle ==
    [][ /\ pc = "initCache" =>
              /\ DOMAIN cache' = 0..(2 ^ s - 1)
              /\ \A i \in DOMAIN cache' :
                    /\ DOMAIN cache'[i] = Lines
                    /\ \A j \in Lines :
                          /\ cache'[i][j].valid = 0
                          /\ cache'[i][j].tag = 0
                          /\ cache'[i][j].lru_counter = 0
        /\ \A i \in Sets \cap DOMAIN cache' :
              /\ \A j \in Lines : cache[i][j].valid # 0 => cache'[i][j].valid # 0
              /\ Cardinality(ValidLines(cache'[i])) >= Cardinality(ValidLines(cache[i]))
        /\ (IsCall /\ Tag(addr') = 0 /\ 0 \notin ResidentTags(cache[SetIndex(addr')]))
              => /\ outcome' # "hit"
                 /\ hit_count' = hit_count
                 /\ miss_count' = miss_count + 1 ]_vars

\* C15 witness: an access with tag 0 was placed into line 1 of a set whose line 0
\* holds another tag: line 1, invalid with its initial tag 0, gave no hit.
C15_Witness ==
    /\ E = 2 /\ pc = "replay" /\ outcome = "miss" /\ Tag(addr) = 0
    /\ cache[SetIndex(addr)][0].valid # 0 /\ cache[SetIndex(addr)][0].tag # 0
    /\ cache[SetIndex(addr)][1].valid # 0 /\ cache[SetIndex(addr)][1].tag = 0

(* ------------------------------- C16 ---------------------------------- *)
\* C16: a second trace with the same operation characters, whose addresses differ
\* from the first trace's in their b low bits at most and whose lengths are any,
\* gives after every line the same verbose output (hit, miss, miss eviction), the
\* same cache and the same three counters as the first.
C16_OffsetAndLength ==
    run2.on =>
        /\ run2.outcome = outcome
        /\ run2.cache = cache
        /\ run2.hit_count = hit_count
        /\ run2.miss_count = miss_count
        /\ run2.eviction_count = eviction_count

\* C16 witness: the two runs have just replayed lines with different addresses and
\* different lengths, after hits and evictions.
C16_Witness ==
    /\ run2.on /\ pc = "replay"
    /\ run2.addr # addr /\ run2.len # len /\ nconv = 2
    /\ hit_count >= 1 /\ eviction_count >= 1

(* ------------------------------- C17 ---------------------------------- *)
\* the lines of a set that hold its greatest recency counter
Oldest(set) ==
    {j \in DOMAIN set :
        \A k \in DOMAIN set : set[k].lru_counter <= set[j].lru_counter}

\* C17: in every state the valid lines of a set have pairwise distinct recency
\* counters, and a set with a valid line has exactly one valid line with counter 0;
\* so a set whose lines are all valid has one line only with the greatest counter:
\* the victim scan never meets a tie.
C17_DistinctRecency ==
    \A i \in Sets :
        /\ \A j, k \in ValidLines(cache[i]) :
              j # k => cache[i][j].lru_counter # cache[i][k].lru_counter
        /\ ValidLines(cache[i]) # {} =>
              Cardinality({j \in ValidLines(cache[i]) : cache[i][j].lru_counter = 0}) = 1
        /\ Full(cache[i]) => Cardinality(Oldest(cache[i])) = 1

\* C17 witness: a set of two valid lines after a hit and an eviction in it, the
\* line accessed last at counter 0 and the other above it.
C17_Witness ==
    /\ E = 2 /\ pc = "replay" /\ hit_count >= 1 /\ eviction_count >= 1
    /\ \E j \in Lines :
          /\ Full(cache[SetIndex(addr)])
          /\ cache[SetIndex(addr)][j].lru_counter = 0
          /\ cache[SetIndex(addr)][1 - j].lru_counter >= 1

(* ------------------------------- C18 ---------------------------------- *)
\* the valid lines of the whole cache
AllValidLines == {p \in Sets \X Lines : cache[p[1]][p[2]].valid # 0}

\* C18: while the cache is allocated, miss_count - eviction_count is the number of
\* valid lines of the cache, which is at most S * E; so eviction_count equals
\* miss_count only while there was no miss.
C18_ValidLineCount ==
    /\ pc \in {"initCache", "replay", "modify2", "freeCache"} =>
          /\ miss_count - eviction_count = Cardinality(AllValidLines)
          /\ Cardinality(AllValidLines) <= S * E
    /\ eviction_count = miss_count => miss_count = 0

\* C18 witness: every line of the cache is valid, after hits and evictions.
C18_Witness ==
    /\ pc = "replay" /\ hit_count >= 1 /\ eviction_count >= 1
    /\ Cardinality(AllValidLines) = S * E

(* ------------------------------- C19 ---------------------------------- *)
\* C19: in every state the valid lines of a set are its first lines: below a valid
\* line every line is valid, so no hit is found above an invalid line, and the first
\* invalid line of a set is at the index that is the number of its valid lines.
C19_ValidPrefix ==
    \A i \in Sets :
        /\ \A j \in ValidLines(cache[i]) : \A k \in 0..(j - 1) : cache[i][k].valid # 0
        /\ ValidLines(cache[i]) = 0..(Cardinality(ValidLines(cache[i])) - 1)
        /\ ~Full(cache[i]) =>
              MinOf(Lines \ ValidLines(cache[i])) = Cardinality(ValidLines(cache[i]))

\* C19 witness: line 0 of a 2-line set was hit while its line 1 is still invalid, and
\* another set already holds two valid lines.
C19_Witness ==
    /\ E = 2 /\ pc = "replay" /\ outcome = "hit"
    /\ ValidLines(cache[SetIndex(addr)]) = {0}
    /\ \E i \in Sets : ValidLines(cache[i]) = {0, 1}

(* ------------------------------- C20 ---------------------------------- *)
\* C20: an accessData call leaves every line of every set but the one its address
\* selects as it was (valid, tag and recency counter); a hit changes no valid bit and
\* no tag of any line; and a line replayTrace passes over (an I line: nconv' = -1)
\* changes neither the cache nor a counter.
C20_Frame ==
    [][ /\ IsCall =>
              /\ DOMAIN cache' = Sets
              /\ \A i \in Sets \ {SetIndex(addr')} : cache'[i] = cache[i]
        /\ (IsCall /\ outcome' = "hit") =>
              \A i \in Sets : \A j \in Lines :
                  /\ cache'[i][j].valid = cache[i][j].valid
                  /\ cache'[i][j].tag = cache[i][j].tag
        /\ (ReadLine /\ nconv' = -1) =>
              UNCHANGED <<cache, hit_count, miss_count, eviction_count>> ]_vars

\* C20 witness: an eviction in one set, after hits, with a valid line in another set.
C20_Witness ==
    /\ pc = "replay" /\ outcome = "miss eviction" /\ hit_count >= 1
    /\ \E i \in Sets \ {SetIndex(addr)} : ValidLines(cache[i]) # {}

====
